---- MODULE Spec2Model ----
(***************************************************************************)
(* Model of arbitrum/evm/compile.py: the EVM -> AVM retargeting backend.   *)
(*                                                                         *)
(*  - make_bst_lookup and the code it emits, run on a small AVM stack      *)
(*    machine (specification Spec);                                        *)
(*  - the peephole passes remove_metadata and replace_self_balance         *)
(*    (specification SpecNorm);                                            *)
(*  - generate_evm_code / generate_contract_code (specification SpecGen);  *)
(*  - the emitted run loop (specification SpecRun, with fairness).         *)
(***************************************************************************)
EXTENDS Integers, Sequences, FiniteSets, TLC

VARIABLES
    mode,      \* which emitted block the machine runs / which pass is applied
    items,     \* the (key, target) table handed to make_bst_lookup
    instrs,    \* a contract's decoded instruction list (input of the passes)
    raw_code,  \* contract id -> decoded instruction list (generate_evm_code)
    key,       \* the value on top of the stack when the block starts
    cond,      \* the value below it (JUMPI's condition)
    vm,        \* the AVM machine: [code, stack, status, target]
    norm,      \* state of the peephole passes
    gen,       \* state of generate_evm_code
    storage,   \* the storage mapping generate_evm_code mutates
    loop       \* state of the emitted run loop

vars == <<mode, items, instrs, raw_code, key, cond, vm, norm, gen, storage, loop>>

(***************************************************************************)
(* Bounds of the model.                                                    *)
(***************************************************************************)
MaxKey == 9        \* dispatch keys are drawn from 1..MaxKey
MaxCodeLen == 3    \* instruction lists of a contract in Spec
MaxNormLen == 4    \* instruction lists handed to the peephole passes
MaxMsgs == 3       \* inbound messages of one run
MaxContracts == 2  \* contract ids are drawn from 1..MaxContracts
MaxGenLen == 1     \* free-form instruction lists handed to generate_evm_code

(***************************************************************************)
(* AVM values.  Every value is a record of the same shape so that any two  *)
(* values can be compared.                                                 *)
(***************************************************************************)
IntV(n) == [t |-> "int", a |-> n, b |-> 0]
Sentinel == [t |-> "tuple", a |-> 0, b |-> 0]
JumpdestLabel(c, pc) == [t |-> "jumpdest", a |-> c, b |-> pc]
ContractEntryLabel(c) == [t |-> "contract_entry", a |-> c, b |-> 0]
Bool(x) == IF x THEN IntV(1) ELSE IntV(0)

(***************************************************************************)
(* Emitted AVM operations.  ifelse carries the two emitted branches.       *)
(***************************************************************************)
Op(name) == [op |-> name, arg |-> IntV(0), then |-> <<>>, else |-> <<>>]
Push(v) == [op |-> "push", arg |-> v, then |-> <<>>, else |-> <<>>]
Tnewn0 == [op |-> "tnewn", arg |-> IntV(0), then |-> <<>>, else |-> <<>>]
IfElse(th, el) == [op |-> "ifelse", arg |-> IntV(0), then |-> th, else |-> el]

(***************************************************************************)
(* make_bst_lookup (compile.py 63-124).  items is a sequence of            *)
(* <<key, target>> pairs; the result is the emitted operation sequence.    *)
(***************************************************************************)
handle_bad_jump == << Tnewn0 >>

\* Mutant: the first entry taken as the pivot instead of the middle one.
MidFirst(its) == 0

Mid(its) == Len(its) \div 2

Left(its) == SubSeq(its, 1, Mid(its))

Right(its) == SubSeq(its, Mid(its) + 2, Len(its))

Pivot(its) == its[Mid(its) + 1][1]

\* Mutant: the target of the entry before the pivot (index off by one).
PivotTargetOffByOne(its) == its[Mid(its)][2]

PivotTarget(its) == its[Mid(its) + 1][2]

impl_n(its, leftCode, rightCode) ==
    << Push(IntV(Pivot(its))), Op("dup1"), Op("lt"),
       IfElse(leftCode,
              << Push(IntV(Pivot(its))), Op("dup1"), Op("gt"),
                 IfElse(rightCode,
                        << Op("pop"), Push(PivotTarget(its)) >>) >>) >>

impl_2(its) ==
    << Op("dup0"), Push(IntV(its[1][1])), Op("eq"),
       IfElse(<< Op("pop"), Push(its[1][2]) >>,
              << Push(IntV(its[2][1])), Op("eq"),
                 IfElse(<< Push(its[2][2]) >>, handle_bad_jump) >>) >>

impl_1(its) ==
    << Push(IntV(its[1][1])), Op("eq"),
       IfElse(<< Push(its[1][2]) >>, handle_bad_jump) >>

RECURSIVE make_bst_lookup(_)
make_bst_lookup(its) ==
    IF Len(its) >= 3
    THEN impl_n(its, make_bst_lookup(Left(its)), make_bst_lookup(Right(its)))
    ELSE IF Len(its) = 2 THEN impl_2(its)
    ELSE IF Len(its) = 1 THEN impl_1(its)
    ELSE handle_bad_jump

(***************************************************************************)
(* The AVM stack machine that runs emitted code.  The head of stack is the *)
(* top.  status: running | done (fell off the block) | halted | jumped |   *)
(* error (stack underflow or a type error).                                *)
(***************************************************************************)
Machine(code, stack) ==
    [code |-> code, stack |-> stack, status |-> "running", target |-> Sentinel]

Stop(m, st) == [m EXCEPT !.code = <<>>, !.status = st]

Advance(m, stack) == [m EXCEPT !.code = Tail(m.code), !.stack = stack]

Drop(s, n) == SubSeq(s, n + 1, Len(s))

VmPushStep(m) == Advance(m, <<Head(m.code).arg>> \o m.stack)

VmTnewnStep(m) == Advance(m, <<Sentinel>> \o m.stack)

VmDup0Step(m) ==
    IF Len(m.stack) < 1 THEN Stop(m, "error")
    ELSE Advance(m, <<m.stack[1]>> \o m.stack)

VmDup1Step(m) ==
    IF Len(m.stack) < 2 THEN Stop(m, "error")
    ELSE Advance(m, <<m.stack[2]>> \o m.stack)

VmPopStep(m) ==
    IF Len(m.stack) < 1 THEN Stop(m, "error")
    ELSE Advance(m, Tail(m.stack))

VmEqStep(m) ==
    IF Len(m.stack) < 2 THEN Stop(m, "error")
    ELSE Advance(m, <<Bool(m.stack[1] = m.stack[2])>> \o Drop(m.stack, 2))

VmLtStep(m) ==
    IF Len(m.stack) < 2 \/ m.stack[1].t # "int" \/ m.stack[2].t # "int"
    THEN Stop(m, "error")
    ELSE Advance(m, <<Bool(m.stack[1].a < m.stack[2].a)>> \o Drop(m.stack, 2))

VmGtStep(m) ==
    IF Len(m.stack) < 2 \/ m.stack[1].t # "int" \/ m.stack[2].t # "int"
    THEN Stop(m, "error")
    ELSE Advance(m, <<Bool(m.stack[1].a > m.stack[2].a)>> \o Drop(m.stack, 2))

VmIfElseStep(m) ==
    IF Len(m.stack) < 1 \/ m.stack[1].t # "int" THEN Stop(m, "error")
    ELSE [m EXCEPT !.code = (IF m.stack[1].a # 0 THEN Head(m.code).then
                             ELSE Head(m.code).else) \o Tail(m.code),
                   !.stack = Tail(m.stack)]

VmHaltStep(m) == Stop(m, "halted")

IsLabel(v) == v.t \in {"jumpdest", "contract_entry"}

VmJumpStep(m) ==
    IF Len(m.stack) < 1 \/ ~IsLabel(m.stack[1]) THEN Stop(m, "error")
    ELSE [m EXCEPT !.code = <<>>, !.status = "jumped",
                   !.target = m.stack[1], !.stack = Tail(m.stack)]

VmCjumpStep(m) ==
    IF Len(m.stack) < 2 \/ ~IsLabel(m.stack[1]) \/ m.stack[2].t # "int"
    THEN Stop(m, "error")
    ELSE IF m.stack[2].a # 0
    THEN [m EXCEPT !.code = <<>>, !.status = "jumped",
                   !.target = m.stack[1], !.stack = Drop(m.stack, 2)]
    ELSE Advance(m, Drop(m.stack, 2))

VmStep(m) ==
    IF m.code = <<>> THEN [m EXCEPT !.status = "done"]
    ELSE CASE Head(m.code).op = "push" -> VmPushStep(m)
           [] Head(m.code).op = "tnewn" -> VmTnewnStep(m)
           [] Head(m.code).op = "dup0" -> VmDup0Step(m)
           [] Head(m.code).op = "dup1" -> VmDup1Step(m)
           [] Head(m.code).op = "pop" -> VmPopStep(m)
           [] Head(m.code).op = "eq" -> VmEqStep(m)
           [] Head(m.code).op = "lt" -> VmLtStep(m)
           [] Head(m.code).op = "gt" -> VmGtStep(m)
           [] Head(m.code).op = "ifelse" -> VmIfElseStep(m)
           [] Head(m.code).op = "halt" -> VmHaltStep(m)
           [] Head(m.code).op = "jump" -> VmJumpStep(m)
           [] Head(m.code).op = "cjump" -> VmCjumpStep(m)
           [] OTHER -> Stop(m, "error")

RECURSIVE Run(_)
Run(m) == IF m.status # "running" THEN m ELSE Run(VmStep(m))

(***************************************************************************)
(* Decoded EVM instructions (pyevmasm): mnemonic, opcode byte, operand,    *)
(* program counter.  An operand is the unsigned integer it denotes, kept   *)
(* as its big-endian bytes without leading zeros (2^160 - 1 does not fit   *)
(* a machine integer); NoOperand stands for Python's None.                 *)
(***************************************************************************)
NoOperand == << -1 >>

Mask160 == [i \in 1..20 |-> 255]

Mask160Minus1 == [i \in 1..20 |-> IF i = 20 THEN 254 ELSE 255]

Kind(name, opcode, operand, size) ==
    [name |-> name, opcode |-> opcode, operand |-> operand, size |-> size]

K_STOP == Kind("STOP", 0, NoOperand, 1)
K_AND == Kind("AND", 22, NoOperand, 1)
K_ADDRESS == Kind("ADDRESS", 48, NoOperand, 1)
K_BALANCE == Kind("BALANCE", 49, NoOperand, 1)
K_JUMPDEST == Kind("JUMPDEST", 91, NoOperand, 1)
K_PUSH6 == Kind("PUSH6", 101, <<1>>, 7)
K_PUSH20_MASK == Kind("PUSH20", 115, Mask160, 21)
K_PUSH20_OTHER == Kind("PUSH20", 115, Mask160Minus1, 21)
K_PUSH21_MASK == Kind("PUSH21", 116, Mask160, 22)
K_LOG1 == Kind("LOG1", 161, NoOperand, 1)
K_JUMP == Kind("JUMP", 86, NoOperand, 1)
K_JUMPI == Kind("JUMPI", 87, NoOperand, 1)
K_EXTCODESIZE == Kind("EXTCODESIZE", 59, NoOperand, 1)

\* The disassembler numbers the instructions by their byte offset.
RECURSIVE PcOf(_, _)
PcOf(kinds, i) == IF i = 1 THEN 0 ELSE PcOf(kinds, i - 1) + kinds[i - 1].size

Disassemble(kinds) ==
    [i \in 1..Len(kinds) |->
        [name |-> kinds[i].name, opcode |-> kinds[i].opcode,
         operand |-> kinds[i].operand, pc |-> PcOf(kinds, i)]]

RECURSIVE SeqsUpTo(_, _)
SeqsUpTo(S, n) ==
    IF n = 0 THEN { <<>> }
    ELSE LET shorter == SeqsUpTo(S, n - 1)
         IN  shorter \cup { Append(q, x) : q \in shorter, x \in S }

SetMax(S) == CHOOSE x \in S : \A y \in S : y <= x

SetMin(S) == CHOOSE x \in S : \A y \in S : x <= y

(***************************************************************************)
(* remove_metadata (compile.py 54-60).                                     *)
(***************************************************************************)
MarkerAtFirstByteOnly(ins, j) == ins[j].opcode = 161

MarkerAt(ins, j) == ins[j].opcode = 161 /\ ins[j + 1].opcode = 101

remove_metadata(ins) ==
    LET hits == { j \in 1..(Len(ins) - 1) : MarkerAt(ins, j) }
    IN  IF hits = {} THEN ins ELSE SubSeq(ins, 1, SetMax(hits) - 1)

(***************************************************************************)
(* replace_self_balance (compile.py 35-51).  i is the 1-based loop index.  *)
(* The condition is evaluated left to right and stops at the first false   *)
(* conjunct; reading instrs[i + k] past the end raises IndexError.         *)
(***************************************************************************)
SELF_BALANCE == [name |-> "SELF_BALANCE", opcode |-> -1, operand |-> NoOperand, pc |-> -1]

RsbCase(ins, i) ==
    IF ins[i].name # "ADDRESS" THEN "copy"
    ELSE IF i + 1 > Len(ins) THEN "raise"
    ELSE IF ins[i + 1].name # "PUSH20" THEN "copy"
    ELSE IF ins[i + 1].operand # Mask160 THEN "copy"
    ELSE IF i + 2 > Len(ins) THEN "raise"
    ELSE IF ins[i + 2].name # "AND" THEN "copy"
    ELSE IF i + 3 > Len(ins) THEN "raise"
    ELSE IF ins[i + 3].name # "BALANCE" THEN "copy"
    ELSE "fuse"

RECURSIVE RsbLoop(_, _, _)
RsbLoop(ins, i, out) ==
    IF i > Len(ins) THEN [raised |-> FALSE, out |-> out]
    ELSE IF RsbCase(ins, i) = "raise" THEN [raised |-> TRUE, out |-> out]
    ELSE IF RsbCase(ins, i) = "fuse" THEN RsbLoop(ins, i + 4, Append(out, SELF_BALANCE))
    ELSE RsbLoop(ins, i + 1, Append(out, ins[i]))

replace_self_balance(ins) == RsbLoop(ins, 1, <<>>)

(***************************************************************************)
(* generate_contract_code (compile.py 199-369).                            *)
(***************************************************************************)
\* sorted(): insertion of each pair into an already sorted sequence.
RECURSIVE SortByKey(_)
SortByKey(pairs) ==
    IF pairs = <<>> THEN <<>>
    ELSE LET rest == SortByKey(Tail(pairs))
             h == Head(pairs)
             n == Cardinality({ j \in 1..Len(rest) : rest[j][1] < h[1] })
         IN  SubSeq(rest, 1, n) \o <<h>> \o SubSeq(rest, n + 1, Len(rest))

RECURSIVE JumpdestPairs(_, _)
JumpdestPairs(code, cid) ==
    IF code = <<>> THEN <<>>
    ELSE (IF Head(code).name = "JUMPDEST"
          THEN << <<Head(code).pc, JumpdestLabel(cid, Head(code).pc)>> >>
          ELSE <<>>) \o JumpdestPairs(Tail(code), cid)

jump_table(code, cid) == SortByKey(JumpdestPairs(code, cid))

\* A PUSH operand is an arbitrary-precision integer, carried as its bytes.
WordV(bytes) == [t |-> "word", a |-> 0, b |-> 0, w |-> bytes]

SwapNames ==
    {"SWAP1", "SWAP2", "SWAP3", "SWAP4", "SWAP5", "SWAP6", "SWAP7", "SWAP8",
     "SWAP9", "SWAP10", "SWAP11", "SWAP12", "SWAP13", "SWAP14", "SWAP15", "SWAP16"}

DupNames ==
    {"DUP1", "DUP2", "DUP3", "DUP4", "DUP5", "DUP6", "DUP7", "DUP8",
     "DUP9", "DUP10", "DUP11", "DUP12", "DUP13", "DUP14", "DUP15", "DUP16"}

PushNames ==
    {"PUSH1", "PUSH2", "PUSH3", "PUSH4", "PUSH5", "PUSH6", "PUSH7", "PUSH8",
     "PUSH9", "PUSH10", "PUSH11", "PUSH12", "PUSH13", "PUSH14", "PUSH15", "PUSH16",
     "PUSH17", "PUSH18", "PUSH19", "PUSH20", "PUSH21", "PUSH22", "PUSH23", "PUSH24",
     "PUSH25", "PUSH26", "PUSH27", "PUSH28", "PUSH29", "PUSH30", "PUSH31", "PUSH32"}

\* Mnemonics translated to one AVM primitive of their own.
PrimitiveNames ==
    {"HASH", "ADD", "MUL", "SUB", "DIV", "MOD", "EXP", "AND", "OR", "NOT",
     "LT", "GT", "EQ", "ISZERO", "POP"}

\* Mnemonics forwarded to the os / execution collaborators.
DelegatedNames ==
    {"SELF_BALANCE", "TIMESTAMP", "SLOAD", "SSTORE", "MSTORE", "MLOAD", "CALLER",
     "CALLVALUE", "CALLDATALOAD", "CALLDATASIZE", "CODECOPY", "RETURNDATASIZE",
     "RETURNDATACOPY", "CALL", "STATICCALL", "STOP", "REVERT", "RETURN",
     "INVALID", "SELFDESTRUCT", "SHA3", "LOG1", "LOG2", "LOG3"}

Handled(name) ==
    name \in PrimitiveNames \cup DelegatedNames \cup SwapNames \cup DupNames
             \cup PushNames
             \cup {"ADDRESS", "CODESIZE", "EXTCODESIZE", "GAS", "JUMPI", "JUMP",
                   "JUMPDEST"}

\* JUMP / JUMPI / EXTCODESIZE: halt when the lookup left the sentinel.
JumpBlock(dispatch) ==
    dispatch \o << Op("dup0"), Tnewn0, Op("eq"),
                   IfElse(<< Op("halt") >>, << Op("jump") >>) >>

\* Mutant: JUMPI translated like JUMP, ignoring the condition.
JumpiBlockUnconditional(dispatch) ==
    dispatch \o << Op("dup0"), Tnewn0, Op("eq"),
                   IfElse(<< Op("halt") >>, << Op("jump") >>) >>

JumpiBlock(dispatch) ==
    dispatch \o << Op("dup0"), Tnewn0, Op("eq"),
                   IfElse(<< Op("halt") >>, << Op("cjump") >>) >>

ExtcodesizeBlock(code_size) ==
    code_size \o << Op("dup0"), Tnewn0, Op("eq"),
                    IfElse(<< Op("halt") >>, <<>>) >>

\* impl of run_op(instr) for a handled mnemonic: the operations it emits.
run_op(instr, cid, codeLen, dispatch, code_size) ==
    CASE instr.name = "JUMP" -> JumpBlock(dispatch)
      [] instr.name = "JUMPI" -> JumpiBlock(dispatch)
      [] instr.name = "EXTCODESIZE" -> ExtcodesizeBlock(code_size)
      [] instr.name = "CODESIZE" -> << Push(IntV(codeLen)) >>
      [] instr.name = "ADDRESS" -> << Push(IntV(cid)) >>
      [] instr.name = "JUMPDEST" ->
            << [op |-> "set_label", arg |-> JumpdestLabel(cid, instr.pc),
                then |-> <<>>, else |-> <<>>] >>
      [] instr.name \in PushNames -> << Push(WordV(instr.operand)) >>
      [] instr.name = "SELF_BALANCE" -> << Push(IntV(0)), Op("os.balance_get") >>
      [] OTHER -> << Op(instr.name) >>

Normalized(code) == replace_self_balance(remove_metadata(code))

\* The call as a whole: "IndexError" from replace_self_balance, "Unhandled"
\* from the first instruction run_op does not know, or the label followed by
\* one block per instruction.
generate_contract_code(code, cid, code_size) ==
    LET r == Normalized(code)
        c == r.out
        dispatch == make_bst_lookup(jump_table(c, cid))
    IN  IF r.raised THEN [status |-> "IndexError", code |-> <<>>, blocks |-> <<>>]
        ELSE IF \E i \in 1..Len(c) : ~Handled(c[i].name)
        THEN [status |-> "Unhandled", code |-> c, blocks |-> <<>>]
        ELSE [status |-> "ok", code |-> c,
              blocks |-> [i \in 1..Len(c) |->
                             run_op(c[i], cid, Len(c), dispatch, code_size)]]

(***************************************************************************)
(* generate_evm_code (compile.py 127-196): the two global tables.          *)
(***************************************************************************)
RECURSIVE SortedSeq(_)
SortedSeq(S) ==
    IF S = {} THEN <<>> ELSE <<SetMin(S)>> \o SortedSeq(S \ {SetMin(S)})

CodeSizeOf(raw, c) == Len(raw[c])

code_sizes(raw) ==
    LET ids == SortedSeq(DOMAIN raw)
    IN  [i \in 1..Len(ids) |-> <<ids[i], IntV(CodeSizeOf(raw, ids[i]))>>]

contract_dispatch(raw) ==
    LET ids == SortedSeq(DOMAIN raw)
    IN  [i \in 1..Len(ids) |-> <<ids[i], ContractEntryLabel(ids[i])>>]

(***************************************************************************)
(* Specification Spec: one emitted block run on the AVM, step by step.     *)
(*   mode "lookup": the code of make_bst_lookup(items) alone;              *)
(*   mode "jump" / "jumpi": the block of a JUMP / JUMPI that is the first  *)
(*   instruction of contract ThisContract, whose other instructions are    *)
(*   drawn from JumpAlphabet.                                              *)
(* The stack starts as key, cond, Below.                                   *)
(***************************************************************************)
ThisContract == 1

Below == << IntV(99) >>

Idle == [pc |-> "idle"]

NoCode == [c \in {} |-> <<>>]

JumpAlphabet == {K_JUMPDEST, K_STOP, K_LOG1, K_PUSH6}

\* Every sorted table with pairwise distinct keys from 1..MaxKey.
TableOf(S) ==
    LET ks == SortedSeq(S)
    IN  [i \in 1..Len(ks) |-> <<ks[i], JumpdestLabel(ThisContract, ks[i])>>]

StartStack == << IntV(key), IntV(cond) >> \o Below

InitLookup ==
    /\ mode = "lookup"
    /\ \E S \in SUBSET (1..MaxKey) : items = TableOf(S)
    /\ instrs = <<>>
    /\ key \in 0..(MaxKey + 1)
    /\ cond = 1
    /\ vm = Machine(make_bst_lookup(items), StartStack)

InitJump ==
    /\ mode \in {"jump", "jumpi"}
    /\ \E q \in SeqsUpTo(JumpAlphabet, MaxCodeLen) :
          instrs = Disassemble(<< IF mode = "jump" THEN K_JUMP ELSE K_JUMPI >> \o q)
    /\ items = jump_table(Normalized(instrs).out, ThisContract)
    /\ key \in 0..(MaxKey + 1)
    /\ cond \in (IF mode = "jump" THEN {1} ELSE {0, 1})
    /\ vm = Machine(generate_contract_code(instrs, ThisContract, handle_bad_jump).blocks[1],
                    StartStack)

Init ==
    /\ InitLookup \/ InitJump
    /\ raw_code = NoCode
    /\ norm = Idle
    /\ gen = Idle
    /\ storage = NoCode
    /\ loop = Idle

VmFrame == UNCHANGED <<mode, items, instrs, raw_code, key, cond, norm, gen, storage, loop>>

Running(name) ==
    /\ vm.status = "running"
    /\ vm.code # <<>>
    /\ Head(vm.code).op = name

VmPush == Running("push") /\ vm' = VmPushStep(vm) /\ VmFrame

VmTnewn == Running("tnewn") /\ vm' = VmTnewnStep(vm) /\ VmFrame

VmDup0 == Running("dup0") /\ vm' = VmDup0Step(vm) /\ VmFrame

VmDup1 == Running("dup1") /\ vm' = VmDup1Step(vm) /\ VmFrame

VmPop == Running("pop") /\ vm' = VmPopStep(vm) /\ VmFrame

VmEq == Running("eq") /\ vm' = VmEqStep(vm) /\ VmFrame

VmLt == Running("lt") /\ vm' = VmLtStep(vm) /\ VmFrame

VmGt == Running("gt") /\ vm' = VmGtStep(vm) /\ VmFrame

VmIfElse == Running("ifelse") /\ vm' = VmIfElseStep(vm) /\ VmFrame

VmHalt == Running("halt") /\ vm' = VmHaltStep(vm) /\ VmFrame

VmJump == Running("jump") /\ vm' = VmJumpStep(vm) /\ VmFrame

VmCjump == Running("cjump") /\ vm' = VmCjumpStep(vm) /\ VmFrame

\* The block is exhausted: control falls through to what follows it.
VmFallThrough ==
    /\ vm.status = "running"
    /\ vm.code = <<>>
    /\ vm' = VmStep(vm)
    /\ VmFrame

Next ==
    \/ VmPush
    \/ VmTnewn
    \/ VmDup0
    \/ VmDup1
    \/ VmPop
    \/ VmEq
    \/ VmLt
    \/ VmGt
    \/ VmIfElse
    \/ VmHalt
    \/ VmJump
    \/ VmCjump
    \/ VmFallThrough

Spec == Init /\ [][Next]_vars

(***************************************************************************)
(* Properties of the dispatch tree (specification Spec).                   *)
(***************************************************************************)
Keys(its) == { its[i][1] : i \in 1..Len(its) }

\* What a table lookup is meant to give for key k.
Expected(its, k) ==
    IF k \in Keys(its)
    THEN its[CHOOSE i \in 1..Len(its) : its[i][1] = k][2]
    ELSE Sentinel

LookupDone == mode = "lookup" /\ vm.status # "running"

\* C1: the code emitted by make_bst_lookup, run with key k on top of the
\* stack, ends normally with the target paired with k on top when k is a key
\* of the table and with the sentinel on top otherwise; never with the target
\* of another key.
C1_LookupResult ==
    LookupDone =>
        /\ vm.status = "done"
        /\ Len(vm.stack) >= 1
        /\ vm.stack[1] = Expected(items, key)

\* C1 witness: a present key was looked up in a table with a pivot node.
C1_WitnessHit ==
    /\ LookupDone
    /\ Len(items) >= 3
    /\ key \in Keys(items)
    /\ vm.stack[1] = JumpdestLabel(ThisContract, key)

\* C8: the lookup consumes the key and leaves exactly one value in its
\* place: the stack below the key is unchanged and the height is unchanged.
C8_OneValueInPlaceOfKey ==
    LookupDone =>
        /\ Len(vm.stack) = Len(StartStack)
        /\ Tail(vm.stack) = Tail(StartStack)

\* The comparison depth of emitted lookup code: the code is run on a symbolic
\* key; every lt / gt / eq of the key against a constant records the
\* constant, an ifelse explores both branches, and the depth is the largest
\* number of distinct constants recorded on one path.
SymKey == [t |-> "key", a |-> 0, b |-> 0]

SymCond == [t |-> "cmp", a |-> 0, b |-> 0]

Max2(x, y) == IF x >= y THEN x ELSE y

ComparedWith(x, y) ==
    IF x = SymKey /\ y.t = "int" THEN {y.a}
    ELSE IF y = SymKey /\ x.t = "int" THEN {x.a}
    ELSE {}

RECURSIVE Depth(_, _, _)
Depth(code, stack, seen) ==
    IF code = <<>> THEN Cardinality(seen)
    ELSE LET o == Head(code)
             rest == Tail(code)
         IN  CASE o.op = "push" -> Depth(rest, <<o.arg>> \o stack, seen)
               [] o.op = "tnewn" -> Depth(rest, <<Sentinel>> \o stack, seen)
               [] o.op = "dup0" -> Depth(rest, <<stack[1]>> \o stack, seen)
               [] o.op = "dup1" -> Depth(rest, <<stack[2]>> \o stack, seen)
               [] o.op = "pop" -> Depth(rest, Tail(stack), seen)
               [] o.op \in {"lt", "gt", "eq"} ->
                     Depth(rest, <<SymCond>> \o Drop(stack, 2),
                           seen \cup ComparedWith(stack[1], stack[2]))
               [] o.op = "ifelse" ->
                     Max2(Depth(o.then \o rest, Tail(stack), seen),
                          Depth(o.else \o rest, Tail(stack), seen))
               [] OTHER -> Cardinality(seen)

TreeDepth(its) == Depth(make_bst_lookup(its), <<SymKey>>, {})

RECURSIVE Pow2(_)
Pow2(d) == IF d = 0 THEN 1 ELSE 2 * Pow2(d - 1)

\* ceil(log2(m)) for m >= 1.
CeilLog2(m) == CHOOSE d \in 0..m : Pow2(d) >= m /\ (d = 0 \/ Pow2(d - 1) < m)

\* C9: the tree built for n entries has depth exactly ceil(log2(n + 1)); a
\* list of three or more entries is split into the pivot and two strictly
\* shorter lists that together hold every other entry.
C9_DepthIsCeilLog2 ==
    mode = "lookup" =>
        /\ TreeDepth(items) = CeilLog2(Len(items) + 1)
        /\ Len(items) >= 3 =>
              /\ Len(Left(items)) < Len(items)
              /\ Len(Right(items)) < Len(items)
              /\ Left(items) \o << items[Mid(items) + 1] >> \o Right(items) = items

\* C9 witness: a finished lookup in a table of seven entries (depth 3).
C9_WitnessSeven == LookupDone /\ Len(items) = 7 /\ TreeDepth(items) = 3

(***************************************************************************)
(* Properties of the JUMP / JUMPI blocks (specification Spec).             *)
(***************************************************************************)
JumpdestPcs ==
    LET c == Normalized(instrs).out
    IN  { c[i].pc : i \in { j \in 1..Len(c) : c[j].name = "JUMPDEST" } }

JumpEnded == mode \in {"jump", "jumpi"} /\ vm.status # "running"

\* C2: a JUMP or JUMPI whose destination d is the program counter of a
\* JUMPDEST of the contract's normalized instruction list transfers to the
\* label jumpdest_<contract>_<d> (JUMPI only when the condition is non-zero,
\* else it falls through); any other destination halts without a transfer.
C2_JumpResolves ==
    JumpEnded =>
        IF key \in JumpdestPcs
        THEN IF mode = "jump" \/ cond # 0
             THEN vm.status = "jumped" /\ vm.target = JumpdestLabel(ThisContract, key)
             ELSE vm.status = "done" /\ vm.target = Sentinel
        ELSE vm.status = "halted" /\ vm.target = Sentinel

\* C2 witness: a JUMPI with a non-zero condition reached a JUMPDEST's label
\* in a contract that has another JUMPDEST as well.
C2_WitnessJumped ==
    /\ mode = "jumpi"
    /\ vm.status = "jumped"
    /\ Cardinality(JumpdestPcs) >= 2
    /\ vm.target = JumpdestLabel(ThisContract, key)

(***************************************************************************)
(* Specification SpecNorm: the peephole passes on an arbitrary instruction *)
(* list.  mode "strip": remove_metadata applied, then applied again to its *)
(* own result.  mode "fuse": the loop of replace_self_balance, one         *)
(* iteration per step.                                                     *)
(***************************************************************************)
NormAlphabet ==
    {K_ADDRESS, K_PUSH20_MASK, K_PUSH20_OTHER, K_PUSH21_MASK, K_AND, K_BALANCE,
     K_LOG1, K_PUSH6}

InitNorm ==
    /\ mode \in {"strip", "fuse"}
    /\ \E q \in SeqsUpTo(NormAlphabet, MaxNormLen) : instrs = Disassemble(q)
    /\ norm = [pc |-> IF mode = "fuse" THEN "loop" ELSE "strip",
               i |-> 1,
               out |-> IF mode = "fuse" THEN <<>> ELSE instrs,
               strips |-> 0,
               once |-> <<>>]
    /\ items = <<>>
    /\ raw_code = NoCode
    /\ key = 0
    /\ cond = 0
    /\ vm = Machine(<<>>, <<>>)
    /\ gen = Idle
    /\ storage = NoCode
    /\ loop = Idle

NormFrame == UNCHANGED <<mode, items, instrs, raw_code, key, cond, vm, gen, storage, loop>>

\* remove_metadata called on the current list (at most twice).
Strip ==
    /\ mode = "strip"
    /\ norm.strips < 2
    /\ norm' = [norm EXCEPT !.out = remove_metadata(norm.out),
                            !.strips = norm.strips + 1,
                            !.once = IF norm.strips = 0
                                     THEN remove_metadata(norm.out)
                                     ELSE norm.once]
    /\ NormFrame

InRsbLoop == mode = "fuse" /\ norm.pc = "loop" /\ norm.i <= Len(instrs)

\* The idiom matched: one SELF_BALANCE, four instructions consumed.
RsbFuse ==
    /\ InRsbLoop
    /\ RsbCase(instrs, norm.i) = "fuse"
    /\ norm' = [norm EXCEPT !.out = Append(norm.out, SELF_BALANCE),
                            !.i = norm.i + 4]
    /\ NormFrame

\* The else branch: the instruction is kept.
RsbCopy ==
    /\ InRsbLoop
    /\ RsbCase(instrs, norm.i) = "copy"
    /\ norm' = [norm EXCEPT !.out = Append(norm.out, instrs[norm.i]),
                            !.i = norm.i + 1]
    /\ NormFrame

\* The condition read past the end of the list: IndexError.
RsbRaise ==
    /\ InRsbLoop
    /\ RsbCase(instrs, norm.i) = "raise"
    /\ norm' = [norm EXCEPT !.pc = "raised"]
    /\ NormFrame

RsbReturn ==
    /\ mode = "fuse"
    /\ norm.pc = "loop"
    /\ norm.i > Len(instrs)
    /\ norm' = [norm EXCEPT !.pc = "returned"]
    /\ NormFrame

NextNorm ==
    \/ Strip
    \/ RsbFuse
    \/ RsbCopy
    \/ RsbRaise
    \/ RsbReturn

SpecNorm == InitNorm /\ [][NextNorm]_vars

\* The fusion as specified: each exact occurrence of the idiom, scanning from
\* the left, becomes one SELF_BALANCE; everything else is kept in order.
IdiomAt(ins, i) ==
    /\ i + 3 <= Len(ins)
    /\ ins[i].name = "ADDRESS"
    /\ ins[i + 1].name = "PUSH20"
    /\ ins[i + 1].operand = Mask160
    /\ ins[i + 2].name = "AND"
    /\ ins[i + 3].name = "BALANCE"

RECURSIVE Fused(_, _)
Fused(ins, i) ==
    IF i > Len(ins) THEN <<>>
    ELSE IF IdiomAt(ins, i) THEN <<SELF_BALANCE>> \o Fused(ins, i + 4)
    ELSE <<ins[i]>> \o Fused(ins, i + 1)

FuseEnded == mode = "fuse" /\ norm.pc # "loop"

\* C6: for every instruction list replace_self_balance returns the list with
\* each exact occurrence of the idiom replaced by SELF_BALANCE and every
\* other instruction kept; a list without the idiom, also one that ends with
\* a proper prefix of it, is returned unchanged.
C6_FusionReturnsFused ==
    FuseEnded => norm.pc = "returned" /\ norm.out = Fused(instrs, 1)

\* Whenever replace_self_balance does return, it returns the fused list.
FusionCorrectWhenReturned ==
    (mode = "fuse" /\ norm.pc = "returned") => norm.out = Fused(instrs, 1)

PairCount(ins) ==
    Cardinality({ j \in 1..(Len(ins) - 1) :
                    ins[j].opcode = 161 /\ ins[j + 1].opcode = 101 })

StrippedTwice == mode = "strip" /\ norm.strips = 2

\* C7 as stated: stripping twice gives the same list as stripping once, for
\* every instruction list.
C7_Idempotent == StrippedTwice => norm.out = norm.once

\* C7 amended: stripping twice gives the same list as stripping once for
\* every instruction list in which the adjacent opcode pair (0xA1, 0x65)
\* occurs at most once.
C7_IdempotentAtMostOneMarker ==
    (StrippedTwice /\ PairCount(instrs) <= 1) => norm.out = norm.once

\* C7 witness: a list with exactly one marker pair, behind other
\* instructions, was stripped twice and the first strip truncated it.
C7_WitnessOneMarker ==
    /\ StrippedTwice
    /\ PairCount(instrs) = 1
    /\ norm.once # instrs
    /\ norm.once # <<>>
    /\ norm.out = norm.once

(***************************************************************************)
(* Specification SpecGen: generate_evm_code(raw_code, storage), one        *)
(* iteration of its compile loop (compile.py 162-180) per step, then the   *)
(* emitted EXTCODESIZE / CODESIZE blocks run on the AVM.                   *)
(* A storage handle is an object: [id, data]; two handles are the same     *)
(* object when their ids are equal.                                        *)
(***************************************************************************)
Range(f) == { f[x] : x \in DOMAIN f }

Extend(f, x, v) == [y \in DOMAIN f \cup {x} |-> IF y = x THEN v ELSE f[y]]

\* storage[contract] = {}: a new empty dict, an object distinct from all others.
NewHandle(st) ==
    [id |-> 1 + SetMax({ h.id : h \in Range(st) } \cup {0}), data |-> "empty"]

\* Mutant: the entry is overwritten whether or not it exists.
NeedsHandleAlways(st, c) == TRUE

NeedsHandle(st, c) == c \notin DOMAIN st

StorageAfterInsert(st, c) ==
    IF NeedsHandle(st, c) THEN Extend(st, c, NewHandle(st)) ELSE st

code_size_func(raw) == make_bst_lookup(code_sizes(raw))

Idiom == << K_ADDRESS, K_PUSH20_MASK, K_AND, K_BALANCE >>

GenAlphabet == {K_STOP, K_ADDRESS, K_BALANCE}

GenSamples ==
    { Idiom, Idiom \o <<K_STOP>>, <<K_STOP, K_LOG1, K_PUSH6>>,
      <<K_STOP, K_ADDRESS, K_PUSH20_MASK>> }

GenCodes ==
    { Disassemble(q) : q \in SeqsUpTo(GenAlphabet, MaxGenLen) \cup GenSamples }

PlainCodes == { Disassemble(<<K_STOP>>), Disassemble(<<K_BALANCE>>) }

ContractIds == 1..MaxContracts

CodeMaps(codes) == UNION { [ids -> codes] : ids \in SUBSET ContractIds }

\* Storage mappings on entry: any ids (also one that is not compiled), any
\* existing handles, shared or not.
StorageMaps ==
    UNION { [ids -> { [id |-> h, data |-> "existing"] : h \in 1..(MaxContracts + 1) }] :
            ids \in SUBSET (1..(MaxContracts + 1)) }

InitGen ==
    /\ \/ raw_code \in CodeMaps(GenCodes) /\ storage = NoCode
       \/ raw_code \in CodeMaps(PlainCodes) /\ storage \in StorageMaps
    /\ gen = [pc |-> "loop",
              todo |-> SortedSeq(DOMAIN raw_code),
              impls |-> <<>>,
              codeLen |-> NoCode,
              contract_info |-> <<>>,
              error |-> "none",
              storage0 |-> storage,
              extId |-> 0, extStatus |-> "none", extStack |-> <<>>,
              csId |-> 0, csStack |-> <<>>]
    /\ mode = "generate"
    /\ items = <<>>
    /\ instrs = <<>>
    /\ key = 0
    /\ cond = 0
    /\ vm = Machine(<<>>, <<>>)
    /\ norm = Idle
    /\ loop = Idle

GenFrame == UNCHANGED <<mode, items, instrs, raw_code, key, cond, vm, norm, loop>>

Compiling == gen.pc = "loop" /\ gen.todo # <<>>

Compiled(c) == generate_contract_code(raw_code[c], c, code_size_func(raw_code))

\* One iteration of the loop at 162-180 that completes.
GenCompileContract ==
    /\ Compiling
    /\ LET c == Head(gen.todo)
           st == StorageAfterInsert(storage, c)
           r == Compiled(c)
       IN  /\ r.status = "ok"
           /\ storage' = st
           /\ gen' = [gen EXCEPT
                  !.todo = Tail(gen.todo),
                  !.impls = Append(gen.impls, <<ContractEntryLabel(c)>> \o r.blocks),
                  !.codeLen = Extend(gen.codeLen, c, Len(r.code)),
                  !.contract_info =
                      Append(gen.contract_info, [contractID |-> c, storage |-> st[c]])]
    /\ GenFrame

\* The iteration in which generate_contract_code raises: the exception
\* leaves generate_evm_code, after the storage entry was inserted.
GenContractRaises ==
    /\ Compiling
    /\ LET c == Head(gen.todo)
           r == Compiled(c)
       IN  /\ r.status # "ok"
           /\ storage' = StorageAfterInsert(storage, c)
           /\ gen' = [gen EXCEPT !.pc = "raised", !.error = r.status]
    /\ GenFrame

\* The loop is over: the initialization block and the main block are built
\* and returned.
GenReturn ==
    /\ gen.pc = "loop"
    /\ gen.todo = <<>>
    /\ gen' = [gen EXCEPT !.pc = "returned"]
    /\ UNCHANGED storage
    /\ GenFrame

\* The emitted program runs an EXTCODESIZE block with id on top of the stack.
ExecExtcodesize ==
    /\ gen.pc = "returned"
    /\ gen.extStatus = "none"
    /\ \E id \in 1..(MaxContracts + 1) :
          LET m == Run(Machine(ExtcodesizeBlock(code_size_func(raw_code)),
                               <<IntV(id)>> \o Below))
          IN  gen' = [gen EXCEPT !.extId = id, !.extStatus = m.status,
                                 !.extStack = m.stack]
    /\ UNCHANGED storage
    /\ GenFrame

\* The emitted program runs a CODESIZE block inside contract c.
ExecCodesize ==
    /\ gen.pc = "returned"
    /\ gen.csId = 0
    /\ \E c \in DOMAIN raw_code :
          LET m == Run(Machine(run_op([name |-> "CODESIZE", opcode |-> 56,
                                       operand |-> NoOperand, pc |-> 0],
                                      c, gen.codeLen[c], <<>>, <<>>),
                               Below))
          IN  gen' = [gen EXCEPT !.csId = c, !.csStack = m.stack]
    /\ UNCHANGED storage
    /\ GenFrame

NextGen ==
    \/ GenCompileContract
    \/ GenContractRaises
    \/ GenReturn
    \/ ExecExtcodesize
    \/ ExecCodesize

SpecGen == InitGen /\ [][NextGen]_vars

(***************************************************************************)
(* Properties of generate_evm_code (specification SpecGen).                *)
(***************************************************************************)
\* The normalized instruction list as specified: metadata stripped, then
\* every exact idiom fused.
NormalizedList(code) == Fused(remove_metadata(code), 1)

ExtProbed == gen.pc = "returned" /\ gen.extStatus # "none"

\* C3: EXTCODESIZE with the id of a compiled contract pushes that contract's
\* instruction count over its normalized instruction list, the value
\* CODESIZE pushes inside that contract; with any other id it halts.
C3_ExtcodesizeIsNormalizedCount ==
    ExtProbed =>
        IF gen.extId \in DOMAIN raw_code
        THEN /\ gen.extStatus = "done"
             /\ gen.extStack = <<IntV(Len(NormalizedList(raw_code[gen.extId])))>> \o Below
             /\ gen.csId = gen.extId => gen.extStack = gen.csStack
        ELSE gen.extStatus = "halted"

\* What the code does instead: the count is taken over the decoded list as
\* the disassembler returned it, before normalization.
ExtcodesizeIsRawCount ==
    ExtProbed =>
        IF gen.extId \in DOMAIN raw_code
        THEN /\ gen.extStatus = "done"
             /\ gen.extStack = <<IntV(Len(raw_code[gen.extId]))>> \o Below
        ELSE gen.extStatus = "halted"

\* CODESIZE pushes the length of the normalized list.
CodesizeIsNormalizedCount ==
    (gen.pc = "returned" /\ gen.csId # 0) =>
        gen.csStack = <<IntV(Len(NormalizedList(raw_code[gen.csId])))>> \o Below

SomeUnhandled ==
    \E c \in DOMAIN raw_code :
        \E i \in 1..Len(NormalizedList(raw_code[c])) :
            ~Handled(NormalizedList(raw_code[c])[i].name)

OneBlockPerInstruction ==
    /\ Len(gen.impls) = Cardinality(DOMAIN raw_code)
    /\ \A n \in 1..Len(gen.impls) :
          LET c == SortedSeq(DOMAIN raw_code)[n]
          IN  /\ Len(gen.impls[n]) = 1 + Len(NormalizedList(raw_code[c]))
              /\ \A i \in 2..Len(gen.impls[n]) : gen.impls[n][i] # <<>>

GenEnded == gen.pc \in {"returned", "raised"}

\* C5: generate_evm_code returns a translation unit with exactly one
\* (non-empty) block per normalized instruction of each contract, or raises;
\* it raises exactly when some normalized instruction has a mnemonic outside
\* the translated set.
C5_RaisesExactlyOnUnhandled ==
    GenEnded =>
        /\ gen.pc = "raised" <=> SomeUnhandled
        /\ gen.pc = "returned" => OneBlockPerInstruction

\* The same statement holds of every run in which replace_self_balance does
\* not raise IndexError.
RaisesExactlyOnUnhandledUnlessIndexError ==
    (GenEnded /\ gen.error # "IndexError") =>
        /\ gen.pc = "raised" <=> SomeUnhandled
        /\ gen.pc = "returned" => OneBlockPerInstruction

Injective(f) == \A x, y \in DOMAIN f : f[x].id = f[y].id => x = y

\* C10: after generate_evm_code returns, given a storage mapping that shared
\* no handle on entry: every compiled contract has an entry; every entry that
\* existed is still there with the same handle; each created entry is a
\* fresh empty handle distinct from every other handle; the record registered
\* for contract c carries storage[c], and no handle is registered twice.
C10_StorageFrame ==
    (gen.pc = "returned" /\ Injective(gen.storage0)) =>
        /\ DOMAIN raw_code \subseteq DOMAIN storage
        /\ \A c \in DOMAIN gen.storage0 :
              c \in DOMAIN storage /\ storage[c] = gen.storage0[c]
        /\ \A c \in DOMAIN storage \ DOMAIN gen.storage0 :
              /\ c \in DOMAIN raw_code
              /\ storage[c].data = "empty"
              /\ \A d \in DOMAIN storage : storage[d].id = storage[c].id => d = c
        /\ Len(gen.contract_info) = Cardinality(DOMAIN raw_code)
        /\ \A n \in 1..Len(gen.contract_info) :
              /\ gen.contract_info[n].contractID = SortedSeq(DOMAIN raw_code)[n]
              /\ gen.contract_info[n].storage = storage[gen.contract_info[n].contractID]
        /\ \A n, k \in 1..Len(gen.contract_info) :
              gen.contract_info[n].storage.id = gen.contract_info[k].storage.id => n = k

\* C10 witness: a call returned in which one contract had a handle on entry,
\* another contract got a fresh one, and an id that is not compiled kept its
\* entry.
C10_WitnessMixed ==
    /\ gen.pc = "returned"
    /\ Injective(gen.storage0)
    /\ \E c \in DOMAIN raw_code : c \in DOMAIN gen.storage0
    /\ \E c \in DOMAIN raw_code : c \notin DOMAIN gen.storage0 /\ storage[c].data = "empty"
    /\ \E c \in DOMAIN gen.storage0 : c \notin DOMAIN raw_code /\ c \in DOMAIN storage

(***************************************************************************)
(* Specification SpecRun: the emitted program at run time.  One contract   *)
(* is compiled; every inbound message makes it execute one of its          *)
(* instructions (a JUMP, a JUMPI or an EXTCODESIZE) with the operand the      *)
(* message carries.                                                        *)
(*   initialization (182-184) -> run_loop_start (186-191):                 *)
(*   get_next_message; setup_initial_call; push run_loop_start; jump.      *)
(***************************************************************************)
RunCode == Disassemble(<< K_JUMPDEST, K_JUMP, K_JUMPI, K_EXTCODESIZE, K_STOP >>)

RunRaw == [c \in {ThisContract} |-> RunCode]

RunUnit == generate_contract_code(RunCode, ThisContract, code_size_func(RunRaw))

\* The block emitted for the first instruction of RunCode named name.
BlockOf(name) ==
    RunUnit.blocks[CHOOSE i \in 1..Len(RunUnit.code) : RunUnit.code[i].name = name]

Messages == [to : {ThisContract}, op : {"JUMP", "JUMPI", "EXTCODESIZE"}, arg : {0, 1}]

\* vm.push(AVMLabel("run_loop_start")); vm.jump()
RunLoopTailTarget == "run_loop_start"

\* Mutant: halt stops the whole machine; nothing runs after it.
AfterHaltMachineStops == "machine_halted"

\* Where control is after a run-time halt inside a message.  vm.halt is not
\* part of compile.py; the design document (sections 5 and 7) says the halt
\* ends the current message's processing and the run loop goes on.
AfterHalt == "run_loop_tail"

InitRun ==
    /\ raw_code = RunRaw
    /\ \E q \in SeqsUpTo(Messages, MaxMsgs) :
          loop = [pc |-> "initialization", inbox |-> q, inbox0 |-> q,
                  fetched |-> <<>>, halted |-> {}, registered |-> <<>>]
    /\ mode = "run"
    /\ items = <<>>
    /\ instrs = <<>>
    /\ key = 0
    /\ cond = 1
    /\ vm = Machine(<<>>, <<>>)
    /\ norm = Idle
    /\ gen = Idle
    /\ storage = NoCode

RunFrame == UNCHANGED <<mode, items, instrs, raw_code, key, cond, norm, gen, storage>>

\* os.initialize(vm, contract_info); vm.jump_direct(run_loop_start)
Initialization ==
    /\ loop.pc = "initialization"
    /\ loop' = [loop EXCEPT !.pc = "run_loop_start",
                            !.registered = SortedSeq(DOMAIN raw_code)]
    /\ UNCHANGED vm
    /\ RunFrame

\* os.get_next_message(vm): blocks until a message is available.
GetNextMessage ==
    /\ loop.pc = "run_loop_start"
    /\ loop.inbox # <<>>
    /\ loop' = [loop EXCEPT !.pc = "setup_initial_call",
                            !.inbox = Tail(loop.inbox),
                            !.fetched = Append(loop.fetched, Head(loop.inbox))]
    /\ UNCHANGED vm
    /\ RunFrame

CurrentMessage == loop.fetched[Len(loop.fetched)]

\* execution.setup_initial_call(vm, dispatch_contract): the message's target
\* is looked up in the contract dispatch tree.
SetupInitialCall ==
    /\ loop.pc = "setup_initial_call"
    /\ loop' = [loop EXCEPT !.pc = "dispatch_contract"]
    /\ vm' = Machine(make_bst_lookup(contract_dispatch(raw_code)),
                     <<IntV(CurrentMessage.to)>>)
    /\ RunFrame

\* One AVM operation of the contract dispatch tree.
DispatchStep ==
    /\ loop.pc = "dispatch_contract"
    /\ vm.status = "running"
    /\ vm' = VmStep(vm)
    /\ UNCHANGED loop
    /\ RunFrame

\* The lookup left the contract's entry label: the contract is entered, with
\* the operands of the instruction it is about to execute on the stack.
EnterContract ==
    /\ loop.pc = "dispatch_contract"
    /\ vm.status = "done"
    /\ vm.stack = <<ContractEntryLabel(CurrentMessage.to)>>
    /\ loop' = [loop EXCEPT !.pc = "contract"]
    /\ vm' = Machine(BlockOf(CurrentMessage.op),
                     <<IntV(CurrentMessage.arg), IntV(cond)>> \o Below)
    /\ RunFrame

\* One AVM operation of the instruction's block.
ContractStep ==
    /\ loop.pc = "contract"
    /\ vm.status = "running"
    /\ vm' = VmStep(vm)
    /\ UNCHANGED loop
    /\ RunFrame

\* The block halted (bad jump destination, unknown contract id).
MessageHalts ==
    /\ loop.pc = "contract"
    /\ vm.status = "halted"
    /\ loop' = [loop EXCEPT !.pc = AfterHalt,
                            !.halted = loop.halted \cup {Len(loop.fetched)}]
    /\ vm' = Machine(<<>>, <<>>)
    /\ RunFrame

\* The block did not halt; the contract runs on to its STOP (execution.stop),
\* which returns to the run loop.
MessageStops ==
    /\ loop.pc = "contract"
    /\ vm.status \in {"done", "jumped"}
    /\ loop' = [loop EXCEPT !.pc = "run_loop_tail"]
    /\ vm' = Machine(<<>>, <<>>)
    /\ RunFrame

\* vm.push(AVMLabel("run_loop_start")); vm.jump()
RunLoopTail ==
    /\ loop.pc = "run_loop_tail"
    /\ loop' = [loop EXCEPT !.pc = RunLoopTailTarget]
    /\ UNCHANGED vm
    /\ RunFrame

NextRun ==
    \/ Initialization
    \/ GetNextMessage
    \/ SetupInitialCall
    \/ DispatchStep
    \/ EnterContract
    \/ ContractStep
    \/ MessageHalts
    \/ MessageStops
    \/ RunLoopTail

\* The emitted program is one thread of control that keeps executing.
SpecRun == InitRun /\ [][NextRun]_vars /\ WF_vars(NextRun)

IsPrefix(p, q) == Len(p) <= Len(q) /\ SubSeq(q, 1, Len(p)) = p

====
